---- MODULE Spec2Model ----
(***************************************************************************)
(* Model of backend/server.py, the wager game engine of Casino-Minesweeper:*)
(* the handlers start_game, click_cell, cash_out and their helper          *)
(* functions, over the two MongoDB collections users and games.            *)
(*                                                                         *)
(* Every handler is a sequence of separate MongoDB round trips (find_one,  *)
(* update_one, insert_one) with no transaction, lock or conditional update *)
(* around them.  Each round trip is atomic in the database; requests       *)
(* served by different server processes over the same database interleave  *)
(* between round trips.  One action of the model is one round trip         *)
(* together with the local computation that follows it in the handler.     *)
(* The find_one that ends start_game and cash_out only copies the user     *)
(* document into the response ("user_data"); it changes nothing and is     *)
(* left out, as are created_at and the percentage echoed by start_game.    *)
(***************************************************************************)
EXTENDS Integers, Sequences, FiniteSets, TLC

(***************************************************************************)
(* Python float arithmetic (IEEE-754 binary64, round to nearest, ties to   *)
(* even).  A positive float is [m |-> <<lo, hi>>, e |-> k]: the odd integer*)
(* lo + hi * 2^WordBits times 2^e; zero is [m |-> <<0, 0>>, e |-> 0].      *)
(* The arithmetic works on the binary digits of the integer, least         *)
(* significant first.  All values the program computes are far from the    *)
(* subnormal and overflow ranges, which are not modelled.                  *)
(***************************************************************************)
MantissaBits == 53
WordBits == 27

RECURSIVE NatToBits(_)
NatToBits(k) == IF k = 0 THEN <<>> ELSE <<k % 2>> \o NatToBits(k \div 2)

RECURSIVE BitsToNat(_)
BitsToNat(b) == IF b = <<>> THEN 0 ELSE Head(b) + 2 * BitsToNat(Tail(b))

RECURSIVE Zeros(_)
Zeros(k) == IF k <= 0 THEN <<>> ELSE <<0>> \o Zeros(k - 1)

RECURSIVE Pow2(_)
Pow2(k) == IF k <= 0 THEN 1 ELSE 2 * Pow2(k - 1)

\* drop the zero digits at the most significant end
RECURSIVE StripHigh(_)
StripHigh(b) ==
    IF b = <<>> THEN <<>>
    ELSE IF b[Len(b)] = 0 THEN StripHigh(SubSeq(b, 1, Len(b) - 1)) ELSE b

\* number of zero digits at the least significant end
RECURSIVE LowZeros(_)
LowZeros(b) == IF b = <<>> \/ Head(b) = 1 THEN 0 ELSE 1 + LowZeros(Tail(b))

\* the two words of at most MantissaBits digits, and back
Pack(b) ==
    IF Len(b) <= WordBits THEN <<BitsToNat(b), 0>>
    ELSE <<BitsToNat(SubSeq(b, 1, WordBits)), BitsToNat(SubSeq(b, WordBits + 1, Len(b)))>>

Digits(w) ==
    IF w[2] = 0 THEN NatToBits(w[1])
    ELSE LET lo == NatToBits(w[1])
         IN  lo \o Zeros(WordBits - Len(lo)) \o NatToBits(w[2])

\* the float with magnitude b * 2^e, b exactly representable
Canon(b, e) ==
    LET s == StripHigh(b)
        z == LowZeros(s)
    IN  IF s = <<>> THEN [m |-> <<0, 0>>, e |-> 0]
        ELSE [m |-> Pack(SubSeq(s, z + 1, Len(s))), e |-> e + z]

\* b + 1
RECURSIVE IncBits(_)
IncBits(b) ==
    IF b = <<>> THEN <<1>>
    ELSE IF Head(b) = 0 THEN <<1>> \o Tail(b)
    ELSE <<0>> \o IncBits(Tail(b))

\* a + b + c, c the carry in
RECURSIVE AddBits(_, _, _)
AddBits(a, b, c) ==
    IF a = <<>> /\ b = <<>> THEN (IF c = 0 THEN <<>> ELSE <<c>>)
    ELSE LET x == IF a = <<>> THEN 0 ELSE Head(a)
             y == IF b = <<>> THEN 0 ELSE Head(b)
             v == x + y + c
         IN  <<v % 2>> \o AddBits(IF a = <<>> THEN <<>> ELSE Tail(a),
                                  IF b = <<>> THEN <<>> ELSE Tail(b),
                                  v \div 2)

\* b * k + c for a small natural k
RECURSIVE MulBits(_, _, _)
MulBits(b, k, c) ==
    IF b = <<>> THEN NatToBits(c)
    ELSE LET v == Head(b) * k + c
         IN  <<v % 2>> \o MulBits(Tail(b), k, v \div 2)

\* the exact value b * 2^e rounded to a float: nearest, ties to even
RoundToFloat(b, e) ==
    LET s == StripHigh(b)
        d == Len(s) - MantissaBits
    IN  IF d <= 0 THEN Canon(s, e)
        ELSE LET kept   == SubSeq(s, d + 1, Len(s))
                 guard  == s[d]
                 sticky == \E i \in 1..(d - 1) : s[i] = 1
                 up     == guard = 1 /\ (sticky \/ kept[1] = 1)
             IN  Canon(IF up THEN IncBits(kept) ELSE kept, e + d)

FloatOfNat(k) == Canon(NatToBits(k), 0)

\* digits of floor(num / q), most significant first, by long division over
\* the digits of num (most significant first); rem is the running remainder
RECURSIVE LongDiv(_, _, _)
LongDiv(num, q, rem) ==
    IF num = <<>> THEN <<rem>>
    ELSE LET r == 2 * rem + Head(num)
         IN  IF r >= q THEN <<1>> \o LongDiv(Tail(num), q, r - q)
             ELSE <<0>> \o LongDiv(Tail(num), q, r)

RECURSIVE Reverse(_)
Reverse(s) == IF s = <<>> THEN <<>> ELSE Reverse(Tail(s)) \o <<Head(s)>>

DivShift == 64

\* float p / float q for naturals p, q > 0: the quotient to DivShift binary
\* places, with a last digit that records a non-zero remainder, rounded
FloatDiv(p, q) ==
    LET num  == Reverse(NatToBits(p)) \o Zeros(DivShift)
        out  == LongDiv(num, q, 0)
        quo  == Reverse(SubSeq(out, 1, Len(out) - 1))
        rem  == out[Len(out)]
    IN  RoundToFloat(<<IF rem = 0 THEN 0 ELSE 1>> \o quo, -(DivShift + 1))

\* int k * float f, k >= 0
FloatMulNat(k, f) == RoundToFloat(MulBits(Digits(f.m), k, 0), f.e)

\* float a + float b
FloatAdd(a, b) ==
    LET e  == IF a.e < b.e THEN a.e ELSE b.e
        am == IF a.m = <<0, 0>> THEN <<>> ELSE Zeros(a.e - e) \o Digits(a.m)
        bm == IF b.m = <<0, 0>> THEN <<>> ELSE Zeros(b.e - e) \o Digits(b.m)
    IN  RoundToFloat(AddBits(am, bm, 0), e)

\* int(f): truncation toward zero of a non-negative float
FloatTrunc(f) ==
    LET b == Digits(f.m)
    IN  IF b = <<>> THEN 0
        ELSE IF f.e >= 0 THEN BitsToNat(b) * Pow2(f.e)
        ELSE IF Len(b) <= -f.e THEN 0
        ELSE BitsToNat(SubSeq(b, 1 - f.e, Len(b)))

\* int(bet * mult) for an int bet and a positive float mult
IntOfProduct(bet, mult) ==
    IF bet >= 0 THEN FloatTrunc(FloatMulNat(bet, mult))
    ELSE -FloatTrunc(FloatMulNat(-bet, mult))

One == FloatOfNat(1)

(***************************************************************************)
(* Payout calculator                                                       *)
(***************************************************************************)
MinMines == 1
MaxMines == 8
DefaultPercentage == 12

MINE_PERCENTAGES ==
    (1 :> 5) @@ (2 :> 8) @@ (3 :> 12) @@ (4 :> 15) @@
    (5 :> 18) @@ (6 :> 22) @@ (7 :> 25) @@ (8 :> 30)

\* MINE_PERCENTAGES.get(mine_count, 12.0)
PercentageOf(mine_count) ==
    IF mine_count \in DOMAIN MINE_PERCENTAGES
    THEN MINE_PERCENTAGES[mine_count] ELSE DefaultPercentage

get_multiplier_per_click(mine_count) == FloatDiv(PercentageOf(mine_count), 100)

calculate_multiplier(safe_clicks, multiplier_per_click) ==
    FloatAdd(One, FloatMulNat(safe_clicks, multiplier_per_click))

\* new_winnings of click_cell
ClickWinnings(bet_amount, is_free_trial, new_multiplier) ==
    IF ~is_free_trial THEN IntOfProduct(bet_amount, new_multiplier) ELSE 0

(***************************************************************************)
(* Bounds of the model and program constants                               *)
(***************************************************************************)
InitialPoints == 1000
InitialFreeTrials == 3
InitialWallet == 100
GridSize == 5

NumSlots == 2       \* requests in flight at the same time
MaxGames == 2       \* games created in one run
MaxRequests == 3    \* requests that pass their checks in one run
MaxOffset == 1      \* mine layouts tried per mine count

Slots == 1..NumSlots
Users == {"u1"}
UserIds == Users \cup {"nobody"}             \* request.user_id
Stakes == {-50, 0, 600, 10000}               \* request.bet_amount
MineCounts == {0, 5, 9}                      \* request.mine_count
Cells == (0..(GridSize - 1)) \X (0..(GridSize - 1))
\* request.row, request.col: two cells of the grid, and two pairs outside it
ClickCells == {<<0, 0>>, <<1, 1>>, <<0, -5>>, <<5, 0>>}
FreeTrialsAtStart == {1, InitialFreeTrials}  \* credits left when the run starts

VARIABLES
    users,   \* users_collection: user_id -> document
    games,   \* games_collection: the documents in insertion order; game_id = index
    req,     \* per slot, the handler in flight: its position and its locals
    last,    \* the response (or HTTPException) the latest step sent, if any
    audit    \* history: requests admitted; per game, the cash-out responses
             \* sent and the credits applied

vars == <<users, games, req, last, audit>>

(***************************************************************************)
(* Board generator                                                         *)
(***************************************************************************)
\* positions of generate_mines, in the order the loops append them
Position(k) == <<k \div GridSize, k % GridSize>>

\* generate_mines with the defect that positions are drawn with repeats
generate_mines_WithRepeats(mine_count) ==
    { {Position(o + (i \div 2)) : i \in 0..(mine_count - 1)} : o \in 0..MaxOffset }

\* generate_mines(grid_size, mine_count): random.sample draws mine_count
\* distinct positions.  Of all samples the model tries the runs of
\* mine_count consecutive positions that start within MaxOffset.
generate_mines(mine_count) ==
    { {Position(o + i) : i \in 0..(mine_count - 1)} : o \in 0..MaxOffset }

(***************************************************************************)
(* Documents, locals and responses                                         *)
(***************************************************************************)
NoGame == [user_id |-> "", bet_amount |-> 0, mine_count |-> 0,
           multiplier_per_click |-> One, current_multiplier |-> One,
           current_winnings |-> 0, mines |-> {}, revealed |-> {},
           is_active |-> FALSE, is_free_trial |-> FALSE, safe_clicks |-> 0]

Idle == [op |-> "idle", pc |-> "", user_id |-> "", bet_amount |-> 0,
         mine_count |-> 0, game_id |-> 0, cell |-> <<0, 0>>,
         is_free_trial |-> FALSE, game |-> NoGame]

\* game is the document a get_game response carries
NoResponse == [op |-> "", status |-> 0, detail |-> "", game_id |-> 0,
               is_free_trial |-> FALSE, winnings |-> 0, game |-> NoGame]

Response(op, detail, gid, free, winnings) ==
    [op |-> op, status |-> 200, detail |-> detail, game_id |-> gid,
     is_free_trial |-> free, winnings |-> winnings, game |-> NoGame]

\* raise HTTPException(status_code, detail)
HTTPException(op, status_code, detail) ==
    [NoResponse EXCEPT !.op = op, !.status = status_code, !.detail = detail]

Init ==
    /\ \E f \in FreeTrialsAtStart :
          /\ users = [u \in Users |->
                 [points |-> InitialPoints, wallet_balance |-> InitialWallet,
                  free_trials_left |-> f,
                  total_games |-> InitialFreeTrials - f, total_winnings |-> 0]]
          /\ audit = [free0 |-> f, requests |-> 0, cashed |-> <<>>, credited |-> <<>>]
    /\ games = <<>>
    /\ req = [s \in Slots |-> Idle]
    /\ last = NoResponse

\* a request takes the lowest free slot: slots are interchangeable
Free(s) == req[s].op = "idle" /\ \A r \in Slots : r < s => req[r].op # "idle"

\* the request is admitted: it passed the checks of its handler
Admit == audit' = [audit EXCEPT !.requests = @ + 1]

\* games that exist or are about to be inserted by a start_game in flight
Pending == Len(games) + Cardinality({s \in Slots : req[s].op = "start"
                                        /\ req[s].pc \in {"debit", "insert"}})

(***************************************************************************)
(* start_game                                                              *)
(***************************************************************************)
\* MineCountRejected with the defect that the lower limit is not checked
MineCountRejected_NoLowerLimit(mine_count) == mine_count > MaxMines

\* the mine count check of start_game
MineCountRejected(mine_count) == mine_count < MinMines \/ mine_count > MaxMines

\* is_free_trial of start_game
IsFreeTrial(user, bet_amount) == user.free_trials_left > 0 /\ bet_amount = 0

\* InsufficientPoints with the defect that the comparison is reversed
InsufficientPoints_Reversed(user, bet_amount, is_free_trial) ==
    ~is_free_trial /\ user.points > bet_amount

\* the balance check of start_game
InsufficientPoints(user, bet_amount, is_free_trial) ==
    ~is_free_trial /\ user.points < bet_amount

\* find_one(user), the checks and the choice free / paid; the user document
\* read is not used after them
StartBegin(s, uid, bet, mc) ==
    /\ Free(s)
    /\ UNCHANGED <<users, games>>
    /\ IF uid \notin DOMAIN users
       THEN /\ last' = HTTPException("start", 404, "User not found")
            /\ UNCHANGED <<req, audit>>
       ELSE IF MineCountRejected(mc)
       THEN /\ last' = HTTPException("start", 400, "Mine count must be between 1 and 8")
            /\ UNCHANGED <<req, audit>>
       ELSE IF InsufficientPoints(users[uid], bet, IsFreeTrial(users[uid], bet))
       THEN /\ last' = HTTPException("start", 400, "Insufficient points")
            /\ UNCHANGED <<req, audit>>
       ELSE /\ Pending < MaxGames
            /\ Admit
            /\ req' = [req EXCEPT ![s] =
                  [Idle EXCEPT !.op = "start", !.pc = "debit", !.user_id = uid,
                               !.bet_amount = bet, !.mine_count = mc,
                               !.is_free_trial = IsFreeTrial(users[uid], bet)]]
            /\ last' = NoResponse

\* Debited with the defect that the two branches are swapped
Debited_Swapped(user, bet_amount, is_free_trial) ==
    IF is_free_trial
    THEN [user EXCEPT !.points = @ - bet_amount]
    ELSE [user EXCEPT !.free_trials_left = @ - 1]

\* the user document after the $inc of the stake or of the free trial
Debited(user, bet_amount, is_free_trial) ==
    IF ~is_free_trial
    THEN [user EXCEPT !.points = @ - bet_amount]
    ELSE [user EXCEPT !.free_trials_left = @ - 1]

StartDebit(s) ==
    /\ req[s].op = "start" /\ req[s].pc = "debit"
    /\ users' = [users EXCEPT ![req[s].user_id] =
                    Debited(@, req[s].bet_amount, req[s].is_free_trial)]
    /\ req' = [req EXCEPT ![s].pc = "insert"]
    /\ last' = NoResponse
    /\ UNCHANGED <<games, audit>>

\* NewGame with the defect that current_winnings starts at 0
NewGame_NoWinnings(uid, bet, mc, is_free, mines) ==
    [user_id |-> uid, bet_amount |-> bet, mine_count |-> mc,
     multiplier_per_click |-> get_multiplier_per_click(mc),
     current_multiplier |-> One, current_winnings |-> 0,
     mines |-> mines, revealed |-> {},
     is_active |-> TRUE, is_free_trial |-> is_free, safe_clicks |-> 0]

\* the game document start_game inserts
NewGame(uid, bet, mc, is_free, mines) ==
    [user_id |-> uid, bet_amount |-> bet, mine_count |-> mc,
     multiplier_per_click |-> get_multiplier_per_click(mc),
     current_multiplier |-> One, current_winnings |-> bet,
     mines |-> mines, revealed |-> {},
     is_active |-> TRUE, is_free_trial |-> is_free, safe_clicks |-> 0]

StartInsert(s) ==
    /\ req[s].op = "start" /\ req[s].pc = "insert"
    /\ \E mines \in generate_mines(req[s].mine_count) :
          games' = Append(games, NewGame(req[s].user_id, req[s].bet_amount,
                                         req[s].mine_count, req[s].is_free_trial, mines))
    /\ audit' = [audit EXCEPT !.cashed = Append(@, 0), !.credited = Append(@, 0)]
    /\ req' = [req EXCEPT ![s].pc = "count", ![s].game_id = Len(games) + 1]
    /\ last' = NoResponse
    /\ UNCHANGED users

\* "current_winnings" of the response of start_game
StartWinnings(bet_amount, is_free_trial) == IF ~is_free_trial THEN bet_amount ELSE 0

\* $inc total_games, and the response
StartCount(s) ==
    /\ req[s].op = "start" /\ req[s].pc = "count"
    /\ users' = [users EXCEPT ![req[s].user_id].total_games = @ + 1]
    /\ last' = Response("start", "started", req[s].game_id, req[s].is_free_trial,
                        StartWinnings(req[s].bet_amount, req[s].is_free_trial))
    /\ req' = [req EXCEPT ![s] = Idle]
    /\ UNCHANGED <<games, audit>>

(***************************************************************************)
(* click_cell                                                              *)
(***************************************************************************)
\* NotActive with the defect that is_active is not checked
NotActive_Unchecked(game) == FALSE

\* the is_active check of click_cell and of cash_out
NotActive(game) == ~game.is_active

\* AlreadyRevealed with the defect that the revealed flag is not checked
AlreadyRevealed_Unchecked(game, cell) == FALSE

\* Python list indexing: lst[i] of a list of GridSize elements raises
\* IndexError outside -GridSize..GridSize-1 and counts a negative i from the end
IndexError(cell) ==
    \E i \in {cell[1], cell[2]} : i < -GridSize \/ i >= GridSize
Index(i) == IF i < 0 THEN i + GridSize ELSE i
ListCell(cell) == <<Index(cell[1]), Index(cell[2])>>

\* the revealed check of click_cell
AlreadyRevealed(game, cell) == ListCell(cell) \in game.revealed

\* find_one(game) and the checks
ClickBegin(s, gid, cell) ==
    /\ Free(s)
    /\ UNCHANGED <<users, games>>
    /\ IF gid \notin DOMAIN games
       THEN /\ last' = HTTPException("click", 404, "Game not found")
            /\ UNCHANGED <<req, audit>>
       ELSE IF NotActive(games[gid])
       THEN /\ last' = HTTPException("click", 400, "Game is not active")
            /\ UNCHANGED <<req, audit>>
       ELSE IF IndexError(cell)
       THEN /\ last' = HTTPException("click", 500, "Internal Server Error")
            /\ UNCHANGED <<req, audit>>
       ELSE IF AlreadyRevealed(games[gid], cell)
       THEN /\ last' = HTTPException("click", 400, "Cell already revealed")
            /\ UNCHANGED <<req, audit>>
       ELSE /\ Admit
            /\ req' = [req EXCEPT ![s] =
                  [Idle EXCEPT !.op = "click", !.pc = "reveal", !.game_id = gid,
                               !.cell = cell, !.game = games[gid]]]
            /\ last' = NoResponse

\* $set revealed.row.col: the path is built from the numbers of the request
\* as they are; MongoDB takes a path component as an array index only when it
\* is a non-negative number, and fails the update (a write error, which the
\* handler does not catch) when it has to create a named field in an array
ClickReveal(s) ==
    /\ req[s].op = "click" /\ req[s].pc = "reveal"
    /\ IF req[s].cell \in Cells
       THEN /\ games' = [games EXCEPT ![req[s].game_id].revealed = @ \cup {req[s].cell}]
            /\ req' = [req EXCEPT ![s].pc = "outcome"]
            /\ last' = NoResponse
       ELSE /\ games' = games
            /\ req' = [req EXCEPT ![s] = Idle]
            /\ last' = HTTPException("click", 500, "Internal Server Error")
    /\ UNCHANGED <<users, audit>>

\* MineHit with the defect that the game is left active
MineHit_StaysActive(game) == game

\* the game document after the $set of the mine branch
MineHit(game) == [game EXCEPT !.is_active = FALSE]

\* the game document after the $set of the safe branch; read is the document
\* click_cell read at its start
SafeClick(game, read) ==
    LET new_safe_clicks == read.safe_clicks + 1
        new_multiplier  == calculate_multiplier(new_safe_clicks, read.multiplier_per_click)
        new_winnings    == ClickWinnings(read.bet_amount, read.is_free_trial, new_multiplier)
    IN  [game EXCEPT !.safe_clicks = new_safe_clicks,
                     !.current_multiplier = new_multiplier,
                     !.current_winnings = new_winnings]

ClickOutcome(s) ==
    LET gid  == req[s].game_id
        read == req[s].game
    IN  /\ req[s].op = "click" /\ req[s].pc = "outcome"
        /\ IF ListCell(req[s].cell) \in read.mines
           THEN /\ games' = [games EXCEPT ![gid] = MineHit(@)]
                /\ last' = Response("click", "mine_hit", gid, read.is_free_trial, 0)
           ELSE /\ games' = [games EXCEPT ![gid] = SafeClick(@, read)]
                /\ last' = Response("click", "safe", gid, read.is_free_trial,
                                    SafeClick(read, read).current_winnings)
        /\ req' = [req EXCEPT ![s] = Idle]
        /\ UNCHANGED <<users, audit>>

(***************************************************************************)
(* cash_out                                                                *)
(***************************************************************************)
\* find_one(game) and the checks
CashBegin(s, gid) ==
    /\ Free(s)
    /\ UNCHANGED <<users, games>>
    /\ IF gid \notin DOMAIN games
       THEN /\ last' = HTTPException("cash", 404, "Game not found")
            /\ UNCHANGED <<req, audit>>
       ELSE IF NotActive(games[gid])
       THEN /\ last' = HTTPException("cash", 400, "Game is not active")
            /\ UNCHANGED <<req, audit>>
       ELSE /\ Admit
            /\ req' = [req EXCEPT ![s] =
                  [Idle EXCEPT !.op = "cash", !.pc = "end", !.game_id = gid,
                               !.game = games[gid]]]
            /\ last' = NoResponse

\* whether cash_out credits the user
Credits(game) == ~game.is_free_trial /\ game.current_winnings > 0

\* the response of cash_out; read is the document cash_out read at its start
CashedOut(gid, read) ==
    Response("cash", "cashed_out", gid, read.is_free_trial, read.current_winnings)

\* $set is_active False; the response when nothing is credited
CashEnd(s) ==
    /\ req[s].op = "cash" /\ req[s].pc = "end"
    /\ games' = [games EXCEPT ![req[s].game_id].is_active = FALSE]
    /\ IF Credits(req[s].game)
       THEN /\ req' = [req EXCEPT ![s].pc = "credit"]
            /\ last' = NoResponse
            /\ UNCHANGED audit
       ELSE /\ req' = [req EXCEPT ![s] = Idle]
            /\ last' = CashedOut(req[s].game_id, req[s].game)
            /\ audit' = [audit EXCEPT !.cashed[req[s].game_id] = @ + 1]
    /\ UNCHANGED users

\* Credited with the defect that total_winnings is left out
Credited_PointsOnly(user, winnings) ==
    [user EXCEPT !.points = @ + winnings, !.wallet_balance = @ + winnings]

\* the user document after the $inc of the winnings
Credited(user, winnings) ==
    [user EXCEPT !.points = @ + winnings,
                 !.total_winnings = @ + winnings,
                 !.wallet_balance = @ + winnings]

\* $inc points, total_winnings, wallet_balance, and the response
CashCredit(s) ==
    /\ req[s].op = "cash" /\ req[s].pc = "credit"
    /\ users' = [users EXCEPT ![req[s].game.user_id] =
                    Credited(@, req[s].game.current_winnings)]
    /\ audit' = [audit EXCEPT !.credited[req[s].game_id] = @ + 1,
                              !.cashed[req[s].game_id] = @ + 1]
    /\ last' = CashedOut(req[s].game_id, req[s].game)
    /\ req' = [req EXCEPT ![s] = Idle]
    /\ UNCHANGED games

(***************************************************************************)
(* get_game                                                                *)
(***************************************************************************)
\* game["mines"][i][j]: 1 for a mine, 0 otherwise
MineAt(game, cell) == IF cell \in game.mines THEN 1 ELSE 0

\* MaskedCell with the defect that the revealed flag is not consulted
MaskedCell_Exposed(game, cell) == MineAt(game, cell)

\* the entry of mines_hidden for one cell
MaskedCell(game, cell) ==
    IF ~(cell \in game.revealed) THEN 0 ELSE MineAt(game, cell)

\* the document get_game returns: "mines" replaced by mines_hidden, kept as
\* the set of the cells whose entry is 1; every other field as stored
get_game(game) ==
    [game EXCEPT !.mines = {cell \in Cells : MaskedCell(game, cell) = 1}]

\* find_one(game) and the response; the handler writes nothing
GetGame(gid) ==
    /\ last' = IF gid \notin DOMAIN games
                THEN HTTPException("query", 404, "Game not found")
                ELSE [Response("query", "", gid, games[gid].is_free_trial,
                               games[gid].current_winnings)
                         EXCEPT !.game = get_game(games[gid])]
    /\ UNCHANGED <<users, games, req, audit>>

(***************************************************************************)
(* The engine                                                              *)
(***************************************************************************)
GameIds == 0..MaxGames      \* request.game_id; 0 names no game

\* requests are accepted until MaxRequests of them have passed their checks
Open == audit.requests < MaxRequests

Next ==
    \/ \E s \in Slots, uid \in UserIds, bet \in Stakes, mc \in MineCounts :
          Open /\ StartBegin(s, uid, bet, mc)
    \/ \E s \in Slots : StartDebit(s)
    \/ \E s \in Slots : StartInsert(s)
    \/ \E s \in Slots : StartCount(s)
    \/ \E s \in Slots, gid \in GameIds, cell \in ClickCells :
          Open /\ ClickBegin(s, gid, cell)
    \/ \E s \in Slots : ClickReveal(s)
    \/ \E s \in Slots : ClickOutcome(s)
    \/ \E s \in Slots, gid \in GameIds : Open /\ CashBegin(s, gid)
    \/ \E s \in Slots : CashEnd(s)
    \/ \E s \in Slots : CashCredit(s)
    \/ \E gid \in GameIds : GetGame(gid)

Spec == Init /\ [][Next]_vars

(***************************************************************************)
(* The payout of one paid session played to the end: the state after one   *)
(* start_game of a paid session, then click_cell requests one at a time,   *)
(* each on the first safe cell not yet revealed.                           *)
(***************************************************************************)
PayoutStakes == {50, 100}
PayoutMineCounts == MinMines..MaxMines

PayoutInit ==
    \E bet \in PayoutStakes, mc \in PayoutMineCounts :
    \E mines \in generate_mines(mc) :
        /\ users = [u \in Users |->
               [points |-> InitialPoints - bet, wallet_balance |-> InitialWallet,
                free_trials_left |-> InitialFreeTrials,
                total_games |-> 1, total_winnings |-> 0]]
        /\ games = <<NewGame("u1", bet, mc, FALSE, mines)>>
        /\ req = [s \in Slots |-> Idle]
        /\ last = Response("start", "started", 1, FALSE, StartWinnings(bet, FALSE))
        /\ audit = [free0 |-> InitialFreeTrials, requests |-> 1,
                    cashed |-> <<0>>, credited |-> <<0>>]

\* the first safe cell of the game that is not revealed, if there is one
NextSafeCell(game) ==
    LET left == {k \in 0..(GridSize * GridSize - 1) :
                    Position(k) \notin game.mines \cup game.revealed}
    IN  {Position(k) : k \in {j \in left : \A i \in left : j <= i}}

PayoutNext ==
    \/ \E cell \in NextSafeCell(games[1]) : ClickBegin(1, 1, cell)
    \/ ClickReveal(1)
    \/ ClickOutcome(1)

SpecPayout == PayoutInit /\ [][PayoutNext]_vars

(***************************************************************************)
(* Properties                                                              *)
(***************************************************************************)
Account == users["u1"]
Quiescent == \A s \in Slots : req[s].op = "idle"

RECURSIVE SumOver(_, _)
SumOver(f, S) ==
    IF S = {} THEN 0
    ELSE LET x == CHOOSE y \in S : TRUE IN f[x] + SumOver(f, S \ {x})

PaidGames == {g \in DOMAIN games : ~games[g].is_free_trial}
PaidStakes == SumOver([g \in DOMAIN games |-> games[g].bet_amount], PaidGames)
CashedWinnings ==
    SumOver([g \in DOMAIN games |-> games[g].current_winnings],
            {g \in PaidGames : audit.cashed[g] >= 1})

\* a mine of the game is revealed and the game has ended
Lost(game) == ~game.is_active /\ game.revealed \cap game.mines # {}

\* C1: after a run of start-session and cash-out requests alone (no cell was
\* revealed) with stakes >= 0, when no request is in flight, the balance is the
\* initial balance minus the stakes of the paid sessions plus the winnings of
\* the paid sessions that were cashed out, each counted once.
C1_LedgerConservation ==
    (/\ Quiescent
     /\ \A g \in DOMAIN games : games[g].bet_amount >= 0 /\ games[g].revealed = {})
        => Account.points = InitialPoints - PaidStakes + CashedWinnings

\* C2: the points balance of the account is never negative.
C2_BalanceNonNegative == Account.points >= 0

\* C3: for every session at most one cash-out call succeeds and the account
\* is credited for it at most once.
C3_SingleCashOut ==
    \A g \in DOMAIN games : audit.cashed[g] <= 1 /\ audit.credited[g] <= 1

\* C4: a reveal issued on a session that has ended (lost or cashed out) is
\* answered 400 "Game is not active" and changes neither the games nor the
\* users nor any request in flight.
C4_TerminalRevealRejected ==
    [][\A s \in Slots, cell \in ClickCells : \A gid \in DOMAIN games :
          (ClickBegin(s, gid, cell) /\ ~games[gid].is_active)
              => /\ last' = HTTPException("click", 400, "Game is not active")
                 /\ games' = games /\ users' = users /\ req' = req]_vars

C4_Witness ==
    /\ last = HTTPException("click", 400, "Game is not active")
    /\ \E g \in DOMAIN games : Lost(games[g])
    /\ Quiescent

\* C5: the stored current_winnings of a free session and of a lost session
\* (of stake >= 0) is 0.
C5_NoWinningsWhenFreeOrLost ==
    \A g \in DOMAIN games :
        (games[g].bet_amount >= 0 /\ (games[g].is_free_trial \/ Lost(games[g])))
            => games[g].current_winnings = 0

\* C6: the stored current_winnings of an active paid session with stake s,
\* mine count m and n safe reveals is floor(s * (100 + n * p) / 100), p the
\* percentage of the table for m.
C6_ExactWinnings ==
    \A g \in DOMAIN games :
        (games[g].is_active /\ ~games[g].is_free_trial /\ games[g].bet_amount >= 0)
            => games[g].current_winnings =
                  (games[g].bet_amount
                     * (100 + games[g].safe_clicks * MINE_PERCENTAGES[games[g].mine_count]))
                  \div 100

\* C7: start_game with a mine count outside 1..8 for an existing account is
\* answered 400 "Mine count must be between 1 and 8" and changes nothing; and
\* every game has a mine count in 1..8 and stores the increment of the table.
C7_RejectedStep ==
    \A s \in Slots, uid \in Users, bet \in Stakes, mc \in MineCounts :
        (StartBegin(s, uid, bet, mc) /\ (mc < 1 \/ mc > 8))
            => /\ last' = HTTPException("start", 400, "Mine count must be between 1 and 8")
               /\ users' = users /\ games' = games /\ req' = req

C7_TableIncrement ==
    \A g \in DOMAIN games :
        /\ games[g].mine_count \in 1..8
        /\ games[g].multiplier_per_click =
              FloatDiv(MINE_PERCENTAGES[games[g].mine_count], 100)

C7_InvalidMineCountRejected == [][C7_RejectedStep]_vars /\ []C7_TableIncrement

C7_Witness ==
    /\ last = HTTPException("start", 400, "Mine count must be between 1 and 8")
    /\ games # <<>>

\* C8: start_game of a paid session whose stake exceeds the balance is
\* answered 400 "Insufficient points" and changes nothing.
C8_InsufficientFundsRejected ==
    [][\A s \in Slots, uid \in Users, bet \in Stakes, mc \in MineCounts :
          (/\ StartBegin(s, uid, bet, mc)
           /\ mc \in 1..8
           /\ ~(users[uid].free_trials_left > 0 /\ bet = 0)
           /\ bet > users[uid].points)
              => /\ last' = HTTPException("start", 400, "Insufficient points")
                 /\ users' = users /\ games' = games /\ req' = req]_vars

C8_Witness ==
    /\ last = HTTPException("start", 400, "Insufficient points")
    /\ Account.points > 0

\* C9: a start with stake 0 on an account with free credits becomes a free
\* session; its deduction takes exactly one free credit and no points, no
\* other step of it touches them; a free session has stake 0 and stored
\* winnings 0, every response for it reports winnings 0, and no step of a
\* cash-out of it changes the account.
C9_FreeChosen ==
    \A s \in Slots, uid \in Users, mc \in MineCounts :
        (StartBegin(s, uid, 0, mc) /\ mc \in 1..8 /\ users[uid].free_trials_left > 0)
            => req'[s].op = "start" /\ req'[s].is_free_trial

C9_FreeStartSteps ==
    \A s \in Slots :
        (req[s].op = "start" /\ req[s].is_free_trial /\ req'[s] # req[s])
            => /\ users'[req[s].user_id].points = users[req[s].user_id].points
               /\ users'[req[s].user_id].free_trials_left =
                     users[req[s].user_id].free_trials_left
                        - (IF req[s].pc = "debit" THEN 1 ELSE 0)

C9_FreeCashSteps ==
    \A s \in Slots :
        (req[s].op = "cash" /\ req[s].game.is_free_trial /\ req'[s] # req[s])
            => users' = users

C9_FreeStored ==
    \A g \in DOMAIN games :
        games[g].is_free_trial
            => games[g].bet_amount = 0 /\ games[g].current_winnings = 0

C9_FreeReported == last.is_free_trial => last.winnings = 0

C9_FreeSession ==
    /\ [][C9_FreeChosen /\ C9_FreeStartSteps /\ C9_FreeCashSteps]_vars
    /\ [](C9_FreeStored /\ C9_FreeReported)

C9_Witness ==
    \E g \in DOMAIN games :
        /\ games[g].is_free_trial /\ games[g].safe_clicks >= 1
        /\ audit.cashed[g] >= 1
        /\ last.op = "cash" /\ last.game_id = g

\* C10: the free-trial counter of the account is never negative.
C10_FreeCreditsNonNegative == Account.free_trials_left >= 0

\* the cells whose mine status is varied, and the mine maps that differ from
\* the map of the game on unrevealed cells among them only
SecretCells == {<<0, 0>>, <<0, 1>>, <<1, 1>>, <<4, 4>>}
AltMines(game) ==
    {(game.mines \ (SecretCells \ game.revealed)) \cup X :
        X \in SUBSET (SecretCells \ game.revealed)}

\* C11: get_game reports 0 for every cell whose revealed flag is false,
\* whatever the mine map holds there: the document returned is the same for
\* every mine map that differs on unrevealed cells only; for a revealed cell
\* it reports the entry of the mine map; and a get_game response carries
\* that document.
C11_MaskedMineMap ==
    /\ \A g \in DOMAIN games :
          /\ \A alt \in AltMines(games[g]) :
                get_game([games[g] EXCEPT !.mines = alt]) = get_game(games[g])
          /\ \A cell \in Cells :
                (cell \in get_game(games[g]).mines)
                    <=> (cell \in games[g].revealed /\ cell \in games[g].mines)
    /\ (last.op = "query" /\ last.status = 200)
          => last.game = get_game(games[last.game_id])

C11_Witness ==
    /\ last.op = "query" /\ last.status = 200
    /\ last.game.revealed \cap last.game.mines # {}
    /\ last.game.revealed \ last.game.mines # {}
    /\ games[last.game_id].mines \ last.game.revealed # {}

\* the revealed cells of the game that hold no mine
RevealedSafe(game) == game.revealed \ game.mines

\* C12: when no request is in flight, every active game (of stake >= 0)
\* stores as safe_clicks the number of its revealed cells that hold no mine,
\* and as current_multiplier the value calculate_multiplier gives for that
\* number.
C12_SafeClicksCounted ==
    Quiescent =>
        \A g \in DOMAIN games :
            (games[g].is_active /\ games[g].bet_amount >= 0) =>
                /\ games[g].safe_clicks = Cardinality(RevealedSafe(games[g]))
                /\ games[g].current_multiplier =
                      calculate_multiplier(Cardinality(RevealedSafe(games[g])),
                                           games[g].multiplier_per_click)

\* C13: click_cell on a cell of an active game whose stored revealed flag is
\* true is answered 400 "Cell already revealed" and changes neither the games
\* nor the users nor any request in flight; no step takes a cell out of the
\* revealed cells of a game (a flag once true stays true, the number of
\* revealed cells never decreases); and safe_clicks never exceeds the number
\* of revealed cells that hold no mine.
C13_RejectedStep ==
    \A s \in Slots, cell \in ClickCells : \A gid \in DOMAIN games :
        (/\ ClickBegin(s, gid, cell)
         /\ games[gid].is_active /\ cell \in games[gid].revealed)
            => /\ last' = HTTPException("click", 400, "Cell already revealed")
               /\ games' = games /\ users' = users /\ req' = req

C13_RevealedKept ==
    \A g \in DOMAIN games :
        /\ g \in DOMAIN games'
        /\ games[g].revealed \subseteq games'[g].revealed
        /\ Cardinality(games[g].revealed) <= Cardinality(games'[g].revealed)

C13_OneSafeClickPerCell ==
    \A g \in DOMAIN games :
        games[g].safe_clicks <= Cardinality(RevealedSafe(games[g]))

C13_RevealedOnce ==
    /\ [][C13_RejectedStep /\ C13_RevealedKept]_vars
    /\ []C13_OneSafeClickPerCell

C13_Witness ==
    /\ last = HTTPException("click", 400, "Cell already revealed")
    /\ \E g \in DOMAIN games :
          games[g].is_active /\ games[g].safe_clicks >= 1

\* C14: cash_out works on the game document it read: w is the stored
\* current_winnings at that read.  Its first update ends the game and leaves
\* the users alone; it goes on to credit exactly when the game is not free
\* and w > 0, and the credit adds exactly w to points and to total_winnings;
\* no step of it changes total_games or free_trials_left; and its response
\* reports winnings w.
C14_Read ==
    \A s \in Slots : \A gid \in DOMAIN games :
        (CashBegin(s, gid) /\ req'[s].op = "cash") => req'[s].game = games[gid]

C14_Steps ==
    \A s \in Slots :
        (req[s].op = "cash" /\ req'[s] # req[s]) =>
            LET read == req[s].game
                w    == read.current_winnings
                old  == users[read.user_id]
                new  == users'[read.user_id]
            IN  /\ new.total_games = old.total_games
                /\ new.free_trials_left = old.free_trials_left
                /\ req[s].pc = "end" =>
                      /\ users' = users
                      /\ ~games'[req[s].game_id].is_active
                      /\ (req'[s].pc = "credit") <=> (~read.is_free_trial /\ w > 0)
                /\ req[s].pc = "credit" =>
                      /\ ~read.is_free_trial /\ w > 0
                      /\ new.points = old.points + w
                      /\ new.total_winnings = old.total_winnings + w
                /\ req'[s].op = "idle" =>
                      /\ last'.op = "cash" /\ last'.status = 200
                      /\ last'.game_id = req[s].game_id
                      /\ last'.winnings = w

C14_CashOutCredit == [][C14_Read /\ C14_Steps]_vars

C14_Witness ==
    /\ last.op = "cash" /\ last.status = 200
    /\ ~last.is_free_trial /\ last.winnings > games[last.game_id].bet_amount
    /\ games[last.game_id].bet_amount > 0
    /\ Account.total_winnings = last.winnings
    /\ Account.points = InitialPoints - games[last.game_id].bet_amount + last.winnings

\* C15: once a cash_out of a game (of stake >= 0) has answered, no step
\* changes the revealed cells, safe_clicks, current_multiplier or
\* current_winnings of that game.
C15_CashedOutFrozen ==
    [][\A g \in DOMAIN games :
          (audit.cashed[g] >= 1 /\ games[g].bet_amount >= 0) =>
              /\ games'[g].revealed = games[g].revealed
              /\ games'[g].safe_clicks = games[g].safe_clicks
              /\ games'[g].current_multiplier = games[g].current_multiplier
              /\ games'[g].current_winnings = games[g].current_winnings]_vars

\* C16: no game is both lost (ended, with a mine revealed) and credited to
\* the account by a cash_out.
C16_NotLostAndPaidOut ==
    \A g \in DOMAIN games : ~(Lost(games[g]) /\ audit.credited[g] >= 1)

\* C17: no step of a click_cell (the step that answers or admits it, its
\* reveal, its outcome) changes any user document; and the outcome step of a
\* click_cell on a mine ends the game and answers "mine_hit" with winnings 0.
C17_ClickStep ==
    \/ last'.op = "click"
    \/ \E s \in Slots : req'[s] # req[s] /\ "click" \in {req[s].op, req'[s].op}

C17_MineHitStep ==
    \A s \in Slots :
        (/\ req[s].op = "click" /\ req[s].pc = "outcome" /\ req'[s] # req[s]
         /\ ListCell(req[s].cell) \in req[s].game.mines)
            => /\ ~games'[req[s].game_id].is_active
               /\ last'.detail = "mine_hit" /\ last'.winnings = 0

C17_RevealLeavesAccounts ==
    [][(C17_ClickStep => users' = users) /\ C17_MineHitStep]_vars

C17_Witness ==
    /\ last.op = "click" /\ last.detail = "mine_hit"
    /\ Lost(games[last.game_id])
    /\ games[last.game_id].bet_amount > 0
    /\ Account.points = InitialPoints - games[last.game_id].bet_amount
    /\ Account.total_winnings = 0

\* C18: the mine map of every game holds exactly mine_count cells of the
\* grid, and no step (of click_cell, cash_out, get_game or any other
\* handler) changes the mine map of a game.
C18_MineCount ==
    \A g \in DOMAIN games :
        /\ games[g].mines \subseteq Cells
        /\ Cardinality(games[g].mines) = games[g].mine_count

C18_MinesKept ==
    \A g \in DOMAIN games : g \in DOMAIN games' /\ games'[g].mines = games[g].mines

C18_MineMapFixed == []C18_MineCount /\ [][C18_MinesKept]_vars

C18_Witness ==
    /\ last.op = "query" /\ last.status = 200
    /\ games[last.game_id].revealed # {}
    /\ audit.cashed[last.game_id] >= 1
    /\ Cardinality(games[last.game_id].mines) = 5

\* C19: click_cell on an active game with a row or column outside 0..4 is
\* answered with a 400 of its own (not that of a game that is not active or
\* of a cell already revealed) and changes neither the games nor the users
\* nor any request in flight.
C19_OutOfRangeRejected ==
    [][\A s \in Slots, cell \in ClickCells \ Cells : \A gid \in DOMAIN games :
          (ClickBegin(s, gid, cell) /\ games[gid].is_active)
              => /\ last'.status = 400
                 /\ last'.detail \notin {"Game is not active", "Cell already revealed"}
                 /\ games' = games /\ users' = users /\ req' = req]_vars

\* C20: no get_game response shows an active game with a mine among its
\* revealed cells.
C20_NoRevealedMineOnActive ==
    (last.op = "query" /\ last.status = 200)
        => ~(last.game.is_active /\ last.game.mines # {})

\* C21: no step of a start_game raises the points of its user, and every
\* game has a stake >= 0.
C21_StartStep ==
    \A s \in Slots :
        (req[s].op = "start" /\ req'[s] # req[s])
            => users'[req[s].user_id].points <= users[req[s].user_id].points

C21_StakeNonNegative == \A g \in DOMAIN games : games[g].bet_amount >= 0

C21_StartNeverAddsPoints == [][C21_StartStep]_vars /\ []C21_StakeNonNegative

\* the run was one start_game of a paid game of stake > 0 and one cash_out
\* of it, both ended, and nothing else was admitted
RoundTrip ==
    /\ Quiescent /\ audit.requests = 2 /\ Len(games) = 1
    /\ ~games[1].is_free_trial /\ games[1].bet_amount > 0
    /\ games[1].revealed = {}
    /\ audit.cashed[1] = 1

\* C22: after a start_game of a paid game of stake s > 0 and a cash_out of
\* it with no click_cell in between, points are what they were before the
\* start, total_winnings is up by s and total_games by 1.
C22_RoundTripRefunds ==
    RoundTrip =>
        /\ Account.points = InitialPoints
        /\ Account.total_winnings = games[1].bet_amount
        /\ Account.total_games = (InitialFreeTrials - audit.free0) + 1

C22_Witness ==
    /\ RoundTrip
    /\ last.op = "cash" /\ last.status = 200
    /\ last.winnings = games[1].bet_amount
    /\ Account.points = InitialPoints

====
